---- MODULE Spec2Model ----
(***************************************************************************)
(* Model of bindings/python/cobj.cpp (dragonffi): the value setter/getter, *)
(* the argument converter, CFunction::call and the three cast methods.     *)
(***************************************************************************)
EXTENDS Integers, Sequences, FiniteSets, TLC

VARIABLES
    ndebug,      \* TRUE when the build defines NDEBUG (assert compiled out)
    ptrWidth,    \* sizeof(uintptr_t) of the platform
    pc,          \* position inside CFunction::call
    fn,          \* the function handle being called
    args,        \* py::args of the call in flight
    I,           \* loop index of CFunction::call
    Holders,     \* ConvertArgsSwitch::ObjsHolder of the call
    PyHolders,   \* ConvertArgsSwitch::PyObjsHolder of the call
    Ptrs,        \* std::vector<void*> Ptrs
    RetObj,      \* std::unique_ptr<CObj> RetObj
    live,        \* heap objects created by the call that are not freed
    freed,       \* heap objects created by the call that were freed
    convLog,     \* history: one record per ConvertArgs::switch_ invocation
    bufReqs,     \* history: py::buffer::request(writable) invocations
    native,      \* history: invocations of NF_.call
    result,      \* what CFunction::call handed back to the host
    mem,         \* native memory, byte addressed
    lastOp,      \* the last get/set operation and its outcome
    opCount,     \* number of get/set operations the host has made
    castSrc,     \* the handle the host program casts
    lastCast     \* the last cast operation and its outcome

vars == <<ndebug, ptrWidth, pc, fn, args, I, Holders, PyHolders, Ptrs, RetObj,
          live, freed, convLog, bufReqs, native, result, mem, lastOp, opCount,
          castSrc, lastCast>>

callVars == <<pc, fn, args, I, Holders, PyHolders, Ptrs, RetObj, live, freed,
              convLog, bufReqs, native, result>>

(***************************************************************************)
(* Type descriptors (dffi/types.h, queried only).                          *)
(***************************************************************************)
BasicT(k, sz) ==
    [kind |-> "Basic", basic |-> k, size |-> sz, align |-> sz,
     pointee |-> "-", pteConst |-> FALSE]
EnumT ==
    [kind |-> "Enum", basic |-> "Int32", size |-> 4, align |-> 4,
     pointee |-> "-", pteConst |-> FALSE]
PointerT(p, c) ==
    [kind |-> "Pointer", basic |-> "-", size |-> 0, align |-> 0,
     pointee |-> p, pteConst |-> c]
ArrayT(e, sz, al) ==
    [kind |-> "Array", basic |-> "-", size |-> sz, align |-> al,
     pointee |-> e, pteConst |-> FALSE]
CompositeT(k, sz, al) ==
    [kind |-> k, basic |-> "-", size |-> sz, align |-> al,
     pointee |-> "-", pteConst |-> FALSE]
FunctionT ==
    [kind |-> "Function", basic |-> "-", size |-> 0, align |-> 1,
     pointee |-> "-", pteConst |-> FALSE]

TypeTable ==
    [Char        |-> BasicT("Char", 1),
     UInt8       |-> BasicT("UInt8", 1),
     Int32       |-> BasicT("Int32", 4),
     UInt32      |-> BasicT("UInt32", 4),
     UInt64      |-> BasicT("UInt64", 8),
     Float32     |-> BasicT("Float32", 4),
     Float64     |-> BasicT("Float64", 8),
     EnumE       |-> EnumT,
     PConstChar  |-> PointerT("Char", TRUE),
     PChar       |-> PointerT("Char", FALSE),
     PConstInt32 |-> PointerT("Int32", TRUE),
     PInt32      |-> PointerT("Int32", FALSE),
     PConstS2    |-> PointerT("S2", TRUE),
     A1Char      |-> ArrayT("Char", 1, 1),
     A2Char      |-> ArrayT("Char", 2, 1),
     A2UInt8     |-> ArrayT("UInt8", 2, 1),
     A4Char      |-> ArrayT("Char", 4, 1),
     A1Int32     |-> ArrayT("Int32", 4, 4),
     S2          |-> CompositeT("Struct", 2, 1),
     S2b         |-> CompositeT("Struct", 2, 1),
     S4c         |-> CompositeT("Struct", 4, 1),
     S4          |-> CompositeT("Struct", 4, 4),
     U2          |-> CompositeT("Union", 2, 1),
     U4          |-> CompositeT("Union", 4, 4),
     FnA         |-> FunctionT,
     FnB         |-> FunctionT]

TypeNames == DOMAIN TypeTable

Kind(t) == TypeTable[t].kind
BasicKind(t) == TypeTable[t].basic
Pointee(t) == TypeTable[t].pointee
PointeeConst(t) == TypeTable[t].pteConst
Size(t) == IF Kind(t) = "Pointer" THEN ptrWidth ELSE TypeTable[t].size
Align(t) == IF Kind(t) = "Pointer" THEN ptrWidth ELSE TypeTable[t].align

IntegerKinds == {"Char", "UInt8", "Int32", "UInt32", "UInt64"}
IsIntegerType(t) == Kind(t) = "Basic" /\ BasicKind(t) \in IntegerKinds

(***************************************************************************)
(* Handles (CObj and its subclasses).  addr is dataPtr()/getData(); val is *)
(* the pointer value held by a CPointerObj or the number held by a scalar  *)
(* made from an address; id names the heap object when the call made it.   *)
(***************************************************************************)
Obj(c, t, a, o, v, i) ==
    [cls |-> c, ty |-> t, addr |-> a, owned |-> o, val |-> v, id |-> i]
NoId == <<"-", 0>>
NoObj == Obj("null", "-", -1, FALSE, -1, NoId)

MaxAddr == 7

\* CPointerObj::cast
CPointerObj_cast(self, To) ==
    IF Kind(To) = "Basic"
    THEN IF Size(To) = ptrWidth
         THEN Obj("CBasicObj", To, -1, TRUE, self.val, NoId)
         ELSE NoObj
    ELSE IF Kind(To) = "Pointer"
         THEN Obj("CPointerObj", To, -1, TRUE, self.val, NoId)
         ELSE NoObj

\* CArrayObj::cast without the alignment test of line 431.
CArrayObj_cast_noAlign(self, To) ==
    IF Kind(To) = "Array"
    THEN IF Size(To) = Size(self.ty)
         THEN Obj("CArrayObj", To, self.addr, FALSE, -1, NoId)
         ELSE NoObj
    ELSE IF Kind(To) = "Pointer"
         THEN Obj("CPointerObj", To, -1, TRUE, self.addr, NoId)
         ELSE NoObj

\* CArrayObj::cast
CArrayObj_cast(self, To) ==
    IF Kind(To) = "Array"
    THEN IF Size(To) = Size(self.ty) /\ self.addr % Align(To) = 0
         THEN Obj("CArrayObj", To, self.addr, FALSE, -1, NoId)
         ELSE NoObj
    ELSE IF Kind(To) = "Pointer"
         THEN Obj("CPointerObj", To, -1, TRUE, self.addr, NoId)
         ELSE NoObj

\* CCompositeObj::cast
CCompositeObj_cast(self, To) ==
    IF Kind(To) = "Pointer"
    THEN Obj("CPointerObj", To, -1, TRUE, self.addr, NoId)
    ELSE IF Kind(To) \in {"Struct", "Union"}
         THEN IF Size(To) = Size(self.ty) /\ self.addr % Align(To) = 0
              THEN IF Kind(To) = "Struct"
                   THEN Obj("CStructObj", To, self.addr, FALSE, -1, NoId)
                   ELSE Obj("CUnionObj", To, self.addr, FALSE, -1, NoId)
              ELSE NoObj
         ELSE NoObj

NoCast == [op |-> "none", src |-> NoObj, to |-> "-", res |-> NoObj]

ClsOf(t) ==
    CASE Kind(t) = "Pointer" -> "CPointerObj"
      [] Kind(t) = "Array" -> "CArrayObj"
      [] Kind(t) = "Struct" -> "CStructObj"
      [] Kind(t) = "Union" -> "CUnionObj"
      [] Kind(t) = "Function" -> "CFunction"
      [] OTHER -> "CBasicObj"

\* The handles a host program can hold: views or owned, at any address.
CastSources ==
    {Obj(ClsOf(t), t, IF Kind(t) = "Pointer" THEN -1 ELSE a, Kind(t) = "Pointer",
         IF Kind(t) = "Pointer" THEN a ELSE -1, NoId) :
        t \in {x \in TypeNames : Kind(x) \in {"Pointer", "Array", "Struct", "Union"}},
        a \in 0..MaxAddr}

CastPointer ==
    /\ castSrc.cls = "CPointerObj"
    /\ \E To \in TypeNames :
          lastCast' = [op |-> "CPointerObj::cast", src |-> castSrc, to |-> To,
                       res |-> CPointerObj_cast(castSrc, To)]
    /\ UNCHANGED <<ndebug, ptrWidth, callVars, mem, lastOp, opCount, castSrc>>

CastArray ==
    /\ castSrc.cls = "CArrayObj"
    /\ \E To \in TypeNames :
          lastCast' = [op |-> "CArrayObj::cast", src |-> castSrc, to |-> To,
                       res |-> CArrayObj_cast(castSrc, To)]
    /\ UNCHANGED <<ndebug, ptrWidth, callVars, mem, lastOp, opCount, castSrc>>

CastComposite ==
    /\ castSrc.cls \in {"CStructObj", "CUnionObj"}
    /\ \E To \in TypeNames :
          lastCast' = [op |-> "CCompositeObj::cast", src |-> castSrc, to |-> To,
                       res |-> CCompositeObj_cast(castSrc, To)]
    /\ UNCHANGED <<ndebug, ptrWidth, callVars, mem, lastOp, opCount, castSrc>>

(***************************************************************************)
(* Host values (py::handle).  hk is the host class of the value; buffers   *)
(* carry what py::buffer_info reports; handles carry the wrapped CObj.     *)
(***************************************************************************)
Host(k, e, f, n, r, d, o, v) ==
    [hk |-> k, enc |-> e, fmt |-> f, ndim |-> n, ro |-> r, data |-> d, obj |-> o,
     num |-> v]
PyInt      == Host("int", FALSE, "-", 0, FALSE, -1, NoObj, 1)
PyStr      == Host("str", TRUE, "-", 0, FALSE, -1, NoObj, 97)
PyBadStr   == Host("str", FALSE, "-", 0, FALSE, -1, NoObj, 0)
PyBytes    == Host("bytes", FALSE, "B", 1, TRUE, 40, NoObj, 0)
BufC       == Host("buffer", FALSE, "c", 1, FALSE, 44, NoObj, 0)
BufCro     == Host("buffer", FALSE, "c", 1, TRUE, 48, NoObj, 0)
BufI       == Host("buffer", FALSE, "i", 1, FALSE, 52, NoObj, 0)
BufC2D     == Host("buffer", FALSE, "c", 2, FALSE, 56, NoObj, 0)
HostHandle(t, a, v) ==
    Host("handle", FALSE, "-", 0, FALSE, -1, Obj(ClsOf(t), t, a, FALSE, v, NoId), 0)

\* Handles the host program holds; the composite and array ones view the
\* native memory from address 20 on.
hInt32  == HostHandle("Int32", 36, -1)
hPConstChar == HostHandle("PConstChar", 64, 40)
hPInt32 == HostHandle("PInt32", 72, 36)
hS2     == HostHandle("S2", 20, -1)
hS4c    == HostHandle("S4c", 22, -1)
hU2     == HostHandle("U2", 26, -1)
hA2Char == HostHandle("A2Char", 28, -1)
hA1Char == HostHandle("A1Char", 30, -1)
hA4Char == HostHandle("A4Char", 32, -1)
hFnA    == HostHandle("FnA", 96, -1)
hFnB    == HostHandle("FnB", 97, -1)

HostVals ==
    {PyInt, PyStr, PyBadStr, PyBytes, BufC, BufCro, BufI, BufC2D,
     hInt32, hPConstChar, hPInt32, hS2, hS4c, hU2, hA2Char, hA1Char, hA4Char,
     hFnA, hFnB}

IsHandle(O, c) == O.hk = "handle" /\ O.obj.cls = c
IsBuffer(O) == O.hk \in {"buffer", "bytes"}

\* The C++ type T a basic kind is dispatched with (dffi/types.h).
CType(t) ==
    CASE Kind(t) = "Enum" -> "Int32"
      [] OTHER -> BasicKind(t)

\* O.cast<T>() of pybind11 for a basic T: char takes a one-character host
\* string, every other T a host number.  PyStr and PyBadStr have one character.
CastsTo(O, T) ==
    IF T = "Char" THEN O.hk = "str" /\ O.enc ELSE O.hk = "int"

\* TypeDispatcher<Switch>::switch_ (dispatcher.h): the case a descriptor selects.
TypeDispatcher_switch(Ty) ==
    CASE Kind(Ty) = "Basic"    -> "case_basic"
      [] Kind(Ty) = "Enum"     -> "case_enum"
      [] Kind(Ty) = "Pointer"  -> "case_pointer"
      [] Kind(Ty) = "Struct"   -> "case_composite"
      [] Kind(Ty) = "Union"    -> "case_composite"
      [] Kind(Ty) = "Array"    -> "case_array"
      [] Kind(Ty) = "Function" -> "case_func"

\* Heap objects made while one call runs.
TmpId(pos) == <<"holder", pos>>
PyBufId(pos) == <<"pybuf", pos>>
RetId == <<"ret", 0>>
HeapAddr(id) ==
    CASE id[1] = "holder" -> 200 + id[2]
      [] id[1] = "pybuf" -> 300 + id[2]
      [] OTHER -> 400

(***************************************************************************)
(* ConvertArgsSwitch.  A conversion yields the handle (or the exception),  *)
(* what it appended to the two holders, and the buffer requests it made.   *)
(***************************************************************************)
ConvOk(o, path, h, pyh, reqs) ==
    [ok |-> TRUE, err |-> "-", obj |-> o, path |-> path,
     holder |-> h, pybuf |-> pyh, reqs |-> reqs]
ConvFail(e, path, reqs) ==
    [ok |-> FALSE, err |-> e, obj |-> NoObj, path |-> path,
     holder |-> FALSE, pybuf |-> FALSE, reqs |-> reqs]

\* ConvertArgsSwitch::checkType
checkType(O, Ty) == TRUE

\* std::to_string, for the sizes the type table holds.
to_string(n) ==
    CASE n = 0 -> "0" [] n = 1 -> "1" [] n = 2 -> "2" [] n = 3 -> "3" [] n = 4 -> "4"
      [] n = 5 -> "5" [] n = 6 -> "6" [] n = 7 -> "7" [] n = 8 -> "8"

\* getFormatDescriptor
getFormatDescriptor(Ty) ==
    IF Kind(Ty) = "Basic"
    THEN CASE BasicKind(Ty) = "Char" -> "c"
           [] BasicKind(Ty) = "UInt8" -> "B"
           [] BasicKind(Ty) = "UInt32" -> "I"
           [] BasicKind(Ty) = "UInt64" -> "Q"
           [] BasicKind(Ty) = "Int32" -> "i"
           [] BasicKind(Ty) = "Float32" -> "f"
           [] BasicKind(Ty) = "Float64" -> "d"
    ELSE to_string(Size(Ty)) \o "B"

\* ConvertArgsSwitch::case_basic<T>
ConvertArgs_case_basic(T, Ty, O, pos) ==
    IF IsHandle(O, "CBasicObj") /\ CType(O.obj.ty) = T
    THEN ConvOk(O.obj, "reuse", FALSE, FALSE, <<>>)
    ELSE IF CastsTo(O, T)
         THEN ConvOk(Obj("CBasicObj", Ty, HeapAddr(TmpId(pos)), TRUE, -1, TmpId(pos)),
                     "scalar", TRUE, FALSE, <<>>)
         ELSE ConvFail("cast_error", "scalar", <<>>)

\* ConvertArgsSwitch::case_enum
ConvertArgs_case_enum(Ty, O, pos) ==
    ConvertArgs_case_basic("Int32", TypeTable[Ty].basic, O, pos)

\* The test of lines 204-206 without its isWritable part.
takesStringBranch_anyChar(Ty) ==
    Kind(Pointee(Ty)) = "Basic" /\ BasicKind(Pointee(Ty)) = "Char"

\* The test guarding the string branch of case_pointer (lines 204-206).
takesStringBranch(Ty) ==
    /\ PointeeConst(Ty)
    /\ Kind(Pointee(Ty)) = "Basic"
    /\ BasicKind(Pointee(Ty)) = "Char"

\* The buffer path of case_pointer (lines 226-239).
bufferPath(Ty, O, pos) ==
    LET isWritable == ~PointeeConst(Ty) IN
    IF ~IsBuffer(O) THEN ConvFail("cast_error", "buffer", <<>>)
    ELSE IF isWritable /\ O.ro
         THEN ConvFail("error_already_set", "buffer", <<isWritable>>)
    ELSE IF O.ndim # 1 THEN ConvFail("TypeError", "buffer", <<isWritable>>)
    ELSE IF O.fmt # getFormatDescriptor(Pointee(Ty))
         THEN ConvFail("TypeError", "buffer", <<isWritable>>)
    ELSE ConvOk(Obj("CPointerObj", Ty, HeapAddr(TmpId(pos)), TRUE, O.data, TmpId(pos)),
                "buffer", TRUE, FALSE, <<isWritable>>)

\* ConvertArgsSwitch::case_pointer
ConvertArgs_case_pointer(Ty, O, pos) ==
    IF IsHandle(O, "CPointerObj")
    THEN IF checkType(O.obj, Ty)
         THEN ConvOk(O.obj, "handle", FALSE, FALSE, <<>>)
         ELSE ConvFail("TypeError", "handle", <<>>)
    ELSE IF takesStringBranch(Ty)
    THEN IF O.hk = "str"
         THEN IF ~O.enc
              THEN ConvFail("TypeError", "string", <<>>)
              ELSE ConvOk(Obj("CPointerObj", Ty, HeapAddr(TmpId(pos)), TRUE,
                              HeapAddr(PyBufId(pos)), TmpId(pos)),
                          "string", TRUE, TRUE, <<>>)
         ELSE IF O.hk = "bytes"
              THEN ConvOk(Obj("CPointerObj", Ty, HeapAddr(TmpId(pos)), TRUE,
                              O.data, TmpId(pos)),
                          "bytes", TRUE, FALSE, <<>>)
              ELSE ConvFail("TypeError", "bytes", <<>>)
    ELSE bufferPath(Ty, O, pos)

\* ConvertArgsSwitch::case_composite / case_array / case_func
ConvertArgs_case_handle(cls, Ty, O) ==
    IF ~IsHandle(O, cls) THEN ConvFail("cast_error", "handle", <<>>)
    ELSE IF checkType(O.obj, Ty)
         THEN ConvOk(O.obj, "handle", FALSE, FALSE, <<>>)
         ELSE ConvFail("TypeError", "handle", <<>>)

\* using ConvertArgs = TypeDispatcher<ConvertArgsSwitch>
ConvertArgs(Ty, O, pos) ==
    LET c == TypeDispatcher_switch(Ty) IN
    CASE c = "case_basic"     -> ConvertArgs_case_basic(CType(Ty), Ty, O, pos)
      [] c = "case_enum"      -> ConvertArgs_case_enum(Ty, O, pos)
      [] c = "case_pointer"   -> ConvertArgs_case_pointer(Ty, O, pos)
      [] c = "case_composite" -> ConvertArgs_case_handle(ClsOf(Ty), Ty, O)
      [] c = "case_array"     -> ConvertArgs_case_handle("CArrayObj", Ty, O)
      [] c = "case_func"      -> ConvertArgs_case_handle("CFunction", Ty, O)

\* TypeDispatcher<CreateObjSwitch>::switch_
CreateObj(Ty) ==
    Obj(IF Kind(Ty) = "Enum" THEN "CBasicObj" ELSE ClsOf(Ty),
        IF Kind(Ty) = "Enum" THEN TypeTable[Ty].basic ELSE Ty,
        HeapAddr(RetId), TRUE, -1, RetId)

(***************************************************************************)
(* ValueSetter and ValueGetter over the native memory.                     *)
(***************************************************************************)
MemSize == 40
MaxOps == 2

Region(base, n) == base..(base + n - 1)
Pow256(k) == IF k = 0 THEN 1 ELSE IF k = 1 THEN 256 ELSE IF k = 2 THEN 65536
             ELSE 16777216
\* The object representation of v in n bytes at base, little endian.
Encode(v, n, base) ==
    [a \in Region(base, n) |-> IF a - base < 4 THEN (v \div Pow256(a - base)) % 256 ELSE 0]
RECURSIVE Decode(_, _, _)
Decode(m, base, n) ==
    IF n = 0 THEN 0 ELSE m[base] + 256 * Decode(m, base + 1, n - 1)
NoWrites == [a \in {} |-> 0]
\* memcpy(dst, src, n)
memcpy(m, dst, src, n) == [a \in Region(dst, n) |-> m[src + (a - dst)]]

PyNone == Host("none", FALSE, "-", 0, FALSE, -1, NoObj, 0)
SetRes(out, w, r, c, T) ==
    [outcome |-> out, writes |-> w, reads |-> r, case |-> c, ctype |-> T, value |-> PyNone]
GetRes(out, v, r, c, T) ==
    [outcome |-> out, writes |-> NoWrites, reads |-> r, case |-> c, ctype |-> T, value |-> v]

\* ValueSetter::case_basic<T>
ValueSetter_case_basic(T, Ptr, O, c) ==
    IF CastsTo(O, T)
    THEN SetRes("ok", Encode(O.num, Size(T), Ptr), {}, c, T)
    ELSE SetRes("cast_error", NoWrites, {}, c, T)

\* ValueSetter::case_pointer
ValueSetter_case_pointer(Ty, Ptr, O) ==
    IF IsHandle(O, "CPointerObj")
    THEN SetRes("ok", Encode(O.obj.val, ptrWidth, Ptr), {}, "case_pointer", "-")
    ELSE SetRes("cast_error", NoWrites, {}, "case_pointer", "-")

\* ValueSetter::case_composite<T>: copies CObj.getSize() bytes.
ValueSetter_case_composite(Ty, Ptr, O) ==
    IF IsHandle(O, ClsOf(Ty))
    THEN SetRes("ok", memcpy(mem, Ptr, O.obj.addr, Size(O.obj.ty)),
                Region(O.obj.addr, Size(O.obj.ty)), "case_composite", "-")
    ELSE SetRes("cast_error", NoWrites, {}, "case_composite", "-")

\* ValueSetter::case_enum
ValueSetter_case_enum(Ty, Ptr, O) ==
    ValueSetter_case_basic("Int32", Ptr, O, "case_enum")

\* ValueSetter::case_array: copies Ty->getSize() bytes.
ValueSetter_case_array(Ty, Ptr, O) ==
    IF IsHandle(O, "CArrayObj")
    THEN SetRes("ok", memcpy(mem, Ptr, O.obj.addr, Size(Ty)),
                Region(O.obj.addr, Size(Ty)), "case_array", "-")
    ELSE SetRes("cast_error", NoWrites, {}, "case_array", "-")

\* A case_func that stores the address of a function handle instead of throwing.
ValueSetter_case_func_store(Ty, Ptr, O) ==
    IF IsHandle(O, "CFunction")
    THEN SetRes("ok", Encode(O.obj.addr, 1, Ptr), {}, "case_func", "-")
    ELSE SetRes("TypeError", NoWrites, {}, "case_func", "-")

\* ValueSetter::case_func
ValueSetter_case_func(Ty, Ptr, O) ==
    SetRes("TypeError", NoWrites, {}, "case_func", "-")

\* TypeDispatcher<ValueSetter>::switch_
ValueSetter(Ty, Ptr, O) ==
    LET c == TypeDispatcher_switch(Ty) IN
    CASE c = "case_basic"     -> ValueSetter_case_basic(CType(Ty), Ptr, O, c)
      [] c = "case_enum"      -> ValueSetter_case_enum(Ty, Ptr, O)
      [] c = "case_pointer"   -> ValueSetter_case_pointer(Ty, Ptr, O)
      [] c = "case_composite" -> ValueSetter_case_composite(Ty, Ptr, O)
      [] c = "case_array"     -> ValueSetter_case_array(Ty, Ptr, O)
      [] c = "case_func"      -> ValueSetter_case_func(Ty, Ptr, O)

\* py::cast(T): a one-character host string for char, a host number otherwise.
HostNumber(T, v) ==
    Host(IF T = "Char" THEN "str" ELSE "int", T = "Char", "-", 0, FALSE, -1, NoObj, v)
HostView(t, a) == HostHandle(t, a, -1)

\* ValueGetter::case_basic<T>
ValueGetter_case_basic(T, Ptr) ==
    GetRes("ok", HostNumber(T, Decode(mem, Ptr, Size(T))), Region(Ptr, Size(T)),
           "case_basic", T)

\* ValueGetter::case_enum
ValueGetter_case_enum(Ty, Ptr) ==
    GetRes("ok", HostNumber("Int32", Decode(mem, Ptr, Size("Int32"))), Region(Ptr, Size("Int32")),
           "case_enum", "Int32")

\* ValueGetter::case_pointer, case_composite, case_array: a view, nothing read.
ValueGetter_case_view(Ty, Ptr, c) ==
    GetRes("ok", HostView(Ty, Ptr), {}, c, "-")

\* ValueGetter::case_func
ValueGetter_case_func(Ty, Ptr) ==
    GetRes("TypeError", PyNone, {}, "case_func", "-")

\* TypeDispatcher<ValueGetter>::switch_
ValueGetter(Ty, Ptr) ==
    LET c == TypeDispatcher_switch(Ty) IN
    CASE c = "case_basic" -> ValueGetter_case_basic(CType(Ty), Ptr)
      [] c = "case_enum"  -> ValueGetter_case_enum(Ty, Ptr)
      [] c = "case_func"  -> ValueGetter_case_func(Ty, Ptr)
      [] OTHER            -> ValueGetter_case_view(Ty, Ptr, c)

\* The containers the host reads and writes through.  Rec is a struct at
\* address 0, the others are the host's handles hS2 and hA2Char.
Field(n, t, o) == [name |-> n, ty |-> t, off |-> o]
Composites ==
    {[data |-> 0,
      fields |-> <<Field("s", "S2", 0), Field("a", "A2Char", 2), Field("u", "U2", 4),
                   Field("c", "Char", 6), Field("f", "FnA", 7), Field("e", "EnumE", 8),
                   Field("p", "PChar", 12)>>],
     [data |-> hS2.obj.addr,
      fields |-> <<Field("c0", "Char", 0), Field("c1", "Char", 1)>>]}
Arrays ==
    {[data |-> hA2Char.obj.addr, elem |-> "Char", count |-> 2],
     [data |-> 7, elem |-> "FnA", count |-> 1]}

AccessVals == {PyInt, PyStr, hPInt32, hS2, hS4c, hU2, hA2Char, hA1Char, hFnA}

NoOp ==
    [op |-> "none", ty |-> "-", addr |-> -1, arg |-> PyNone,
     res |-> GetRes("none", PyNone, {}, "-", "-")]

Store(m, w) == [a \in DOMAIN m |-> IF a \in DOMAIN w THEN w[a] ELSE m[a]]

DoSet(via, Ty, Ptr, O) ==
    LET r == ValueSetter(Ty, Ptr, O) IN
    /\ mem' = Store(mem, r.writes)
    /\ lastOp' = [op |-> via, ty |-> Ty, addr |-> Ptr, arg |-> O, res |-> r]

DoGet(via, Ty, Ptr) ==
    LET r == ValueGetter(Ty, Ptr) IN
    /\ mem' = mem
    /\ lastOp' = [op |-> via, ty |-> Ty, addr |-> Ptr, arg |-> PyNone, res |-> r]

\* CCompositeObj::setValue
CCompositeObj_setValue ==
    /\ opCount < MaxOps
    /\ \E h \in Composites : \E i \in 1..Len(h.fields), O \in AccessVals :
          DoSet("set", h.fields[i].ty, h.data + h.fields[i].off, O)
    /\ opCount' = opCount + 1
    /\ UNCHANGED <<ndebug, ptrWidth, callVars, castSrc, lastCast>>

\* CCompositeObj::getValue
CCompositeObj_getValue ==
    /\ opCount < MaxOps
    /\ \E h \in Composites : \E i \in 1..Len(h.fields) :
          DoGet("get", h.fields[i].ty, h.data + h.fields[i].off)
    /\ opCount' = opCount + 1
    /\ UNCHANGED <<ndebug, ptrWidth, callVars, castSrc, lastCast>>

\* CArrayObj::set
CArrayObj_set ==
    /\ opCount < MaxOps
    /\ \E h \in Arrays : \E Idx \in 0..(h.count - 1), O \in AccessVals :
          DoSet("set", h.elem, h.data + Idx * Size(h.elem), O)
    /\ opCount' = opCount + 1
    /\ UNCHANGED <<ndebug, ptrWidth, callVars, castSrc, lastCast>>

\* CArrayObj::get
CArrayObj_get ==
    /\ opCount < MaxOps
    /\ \E h \in Arrays : \E Idx \in 0..(h.count - 1) :
          DoGet("get", h.elem, h.data + Idx * Size(h.elem))
    /\ opCount' = opCount + 1
    /\ UNCHANGED <<ndebug, ptrWidth, callVars, castSrc, lastCast>>

(***************************************************************************)
(* CFunction::call.                                                        *)
(***************************************************************************)
MaxArgs == 2

Func(n, ps, r) == [name |-> n, params |-> ps, ret |-> r]
Functions ==
    {Func("add",   <<"Int32", "Int32">>, "Int32"),
     Func("puts",  <<"PConstChar">>, "Int32"),
     Func("fill",  <<"PChar", "EnumE">>, "-"),
     Func("area",  <<"S2", "A2Char">>, "S2"),
     Func("visit", <<"FnA", "U2">>, "-"),
     Func("sum",   <<"PConstInt32", "PInt32">>, "PChar")}

ArgSeqs == UNION {[1..n -> HostVals] : n \in 0..MaxArgs}

Range(q) == {q[i] : i \in 1..Len(q)}

NoFn == Func("-", <<>>, "-")
NoResult == [kind |-> "pending", err |-> "-", obj |-> NoObj]
ErrorResult(e) == [kind |-> "error", err |-> e, obj |-> NoObj]
ValueResult(o) == [kind |-> "value", err |-> "-", obj |-> o]
NoneResult == [kind |-> "none", err |-> "-", obj |-> NoObj]

\* What a conversion leaves on the heap.
Created(r, pos) ==
    (IF r.holder THEN {TmpId(pos)} ELSE {}) \cup (IF r.pybuf THEN {PyBufId(pos)} ELSE {})

\* A scope exit that frees the holders only on the normal return path.
Destroyed_leakOnThrow(H, PyH, R, thrown) ==
    IF thrown THEN {} ELSE Range(H) \cup Range(PyH)

\* Scope exit of CFunction::call: ~Holders, ~PyHolders and, when it still owns
\* its object, ~RetObj.
Destroyed(H, PyH, R, thrown) ==
    Range(H) \cup Range(PyH) \cup (IF R = NoObj THEN {} ELSE {R.id})

\* assert(Len == FTy->getParams().size()), line 388
arityAssert(len, n) ==
    IF ndebug THEN "proceed"
    ELSE IF len = n THEN "proceed" ELSE "abort"

\* Lines 380-388: the locals and the arity assertion.
CallEnter ==
    /\ pc = "idle"
    /\ \E f \in Functions, a \in ArgSeqs :
          /\ fn' = f
          /\ args' = a
          /\ pc' = IF arityAssert(Len(a), Len(f.params)) = "abort"
                   THEN "aborted" ELSE "bind"
    /\ I' = 0
    /\ Holders' = <<>>
    /\ PyHolders' = <<>>
    /\ Ptrs' = <<>>
    /\ RetObj' = NoObj
    /\ freed' = {}
    /\ convLog' = <<>>
    /\ bufReqs' = <<>>
    /\ native' = <<>>
    /\ result' = NoResult
    /\ UNCHANGED <<ndebug, ptrWidth, live, mem, lastOp, opCount, castSrc, lastCast>>

\* FTy->getParams()[I], line 392: past the end the read is undefined, and
\* yields either some descriptor or a fault.
ParamAt(f, i) ==
    IF i < Len(f.params) THEN {f.params[i + 1]} ELSE TypeNames

\* One iteration of the loop, lines 391-396.
CallConvert ==
    /\ pc = "bind"
    /\ I < Len(args)
    /\ \E ATy \in ParamAt(fn, I) :
          LET r == ConvertArgs(ATy, args[I + 1], I)
              H == IF r.holder THEN Append(Holders, TmpId(I)) ELSE Holders
              PyH == IF r.pybuf THEN Append(PyHolders, PyBufId(I)) ELSE PyHolders
              gone == Destroyed(H, PyH, NoObj, TRUE)
          IN
          /\ convLog' = Append(convLog, [pos |-> I, ty |-> ATy, arg |-> args[I + 1],
                                         res |-> r])
          /\ bufReqs' = bufReqs \o r.reqs
          /\ IF r.ok
             THEN /\ Holders' = H
                  /\ PyHolders' = PyH
                  /\ Ptrs' = Append(Ptrs, r.obj.addr)
                  /\ I' = I + 1
                  /\ live' = live \cup Created(r, I)
                  /\ UNCHANGED <<pc, freed, result>>
             ELSE /\ Holders' = <<>>
                  /\ PyHolders' = <<>>
                  /\ live' = (live \cup Created(r, I)) \ gone
                  /\ freed' = freed \cup gone
                  /\ result' = ErrorResult(r.err)
                  /\ pc' = "done"
                  /\ UNCHANGED <<Ptrs, I>>
    /\ UNCHANGED <<ndebug, ptrWidth, fn, args, RetObj, native, mem, lastOp, opCount, castSrc, lastCast>>

\* The out-of-range read of line 392 faulting.
CallFault ==
    /\ pc = "bind"
    /\ I < Len(args)
    /\ I >= Len(fn.params)
    /\ pc' = "crashed"
    /\ UNCHANGED <<ndebug, ptrWidth, fn, args, I, Holders, PyHolders, Ptrs, RetObj,
                   live, freed, convLog, bufReqs, native, result, mem, lastOp, opCount, castSrc, lastCast>>

\* Lines 398-402: the return object.
CallAlloc ==
    /\ pc = "bind"
    /\ I = Len(args)
    /\ RetObj' = IF fn.ret # "-" THEN CreateObj(fn.ret) ELSE NoObj
    /\ live' = IF fn.ret # "-" THEN live \cup {RetId} ELSE live
    /\ pc' = "invoke"
    /\ UNCHANGED <<ndebug, ptrWidth, fn, args, I, Holders, PyHolders, Ptrs, freed,
                   convLog, bufReqs, native, result, mem, lastOp, opCount, castSrc, lastCast>>

\* Line 403: NF_.call(RetTy ? RetObj->dataPtr() : nullptr, &Ptrs[0]).
CallInvoke ==
    /\ pc = "invoke"
    /\ native' = Append(native, [ret |-> IF fn.ret # "-" THEN RetObj.addr ELSE -1,
                                 ptrs |-> Ptrs, live |-> live])
    /\ pc' = "native"
    /\ UNCHANGED <<ndebug, ptrWidth, fn, args, I, Holders, PyHolders, Ptrs, RetObj,
                   live, freed, convLog, bufReqs, result, mem, lastOp, opCount, castSrc, lastCast>>

\* Lines 404-408: the native call returned; RetObj.release() hands the return
\* object to the host, then the locals go out of scope.
CallReturn ==
    /\ pc = "native"
    /\ LET gone == Destroyed(Holders, PyHolders, NoObj, FALSE) IN
          /\ live' = (live \ gone) \ {RetId}
          /\ freed' = freed \cup gone
    /\ result' = IF RetObj # NoObj THEN ValueResult(RetObj) ELSE NoneResult
    /\ RetObj' = NoObj
    /\ Holders' = <<>>
    /\ PyHolders' = <<>>
    /\ pc' = "done"
    /\ UNCHANGED <<ndebug, ptrWidth, fn, args, I, Ptrs, convLog, bufReqs, native,
                   mem, lastOp, opCount, castSrc, lastCast>>

\* The native call threw: the locals, RetObj with them, go out of scope.
CallThrow ==
    /\ pc = "native"
    /\ LET gone == Destroyed(Holders, PyHolders, RetObj, TRUE) IN
          /\ live' = live \ gone
          /\ freed' = freed \cup gone
    /\ result' = ErrorResult("native")
    /\ RetObj' = NoObj
    /\ Holders' = <<>>
    /\ PyHolders' = <<>>
    /\ pc' = "done"
    /\ UNCHANGED <<ndebug, ptrWidth, fn, args, I, Ptrs, convLog, bufReqs, native,
                   mem, lastOp, opCount, castSrc, lastCast>>

\* The host has the result and the frame of the call is gone; the next call
\* may start.
CallExit ==
    /\ pc = "done"
    /\ pc' = "idle"
    /\ fn' = NoFn
    /\ args' = <<>>
    /\ I' = 0
    /\ Ptrs' = <<>>
    /\ freed' = {}
    /\ convLog' = <<>>
    /\ bufReqs' = <<>>
    /\ native' = <<>>
    /\ result' = NoResult
    /\ UNCHANGED <<ndebug, ptrWidth, Holders, PyHolders, RetObj, live, mem, lastOp,
                   opCount, castSrc, lastCast>>

InitCommon ==
    /\ ndebug \in BOOLEAN
    /\ ptrWidth \in {4, 8}
    /\ pc = "idle"
    /\ fn = NoFn
    /\ args = <<>>
    /\ I = 0
    /\ Holders = <<>>
    /\ PyHolders = <<>>
    /\ Ptrs = <<>>
    /\ RetObj = NoObj
    /\ live = {}
    /\ freed = {}
    /\ convLog = <<>>
    /\ bufReqs = <<>>
    /\ native = <<>>
    /\ result = NoResult
    /\ mem = [a \in 0..(MemSize - 1) |-> IF a < hS2.obj.addr THEN 0 ELSE a]
    /\ lastOp = NoOp
    /\ opCount = 0
    /\ lastCast = NoCast

Init ==
    /\ InitCommon
    /\ castSrc = NoObj

InitCast ==
    /\ InitCommon
    /\ castSrc \in CastSources

NextCall ==
    \/ CallEnter
    \/ CallConvert
    \/ CallFault
    \/ CallAlloc
    \/ CallInvoke
    \/ CallReturn
    \/ CallThrow
    \/ CallExit

NextCast ==
    \/ CastPointer
    \/ CastArray
    \/ CastComposite

NextAccess ==
    \/ CCompositeObj_setValue
    \/ CCompositeObj_getValue
    \/ CArrayObj_set
    \/ CArrayObj_get

Next == NextCall \/ NextAccess \/ NextCast

Spec == Init /\ [][Next]_vars
SpecAccess == Init /\ [][NextAccess]_vars
SpecCall == Init /\ [][NextCall]_vars
SpecCast == InitCast /\ [][NextCast]_vars

(***************************************************************************)
(* Properties of CFunction::call and of the argument converter.            *)
(***************************************************************************)
NParams == Len(fn.params)
InCall == pc # "idle"
ArityMatches == Len(args) = NParams
Invoked == native # <<>>
AllCreated == UNION {Created(convLog[i].res, convLog[i].pos) : i \in 1..Len(convLog)}
LogEntries == {convLog[i] : i \in 1..Len(convLog)}

\* C1: a call whose number of host arguments differs from the declared
\* parameter count fails with TypeError before anything else happens: no
\* conversion, no transient, no return handle, no native call.
C1_ArityMismatchRaisesTypeError ==
    (InCall /\ ~ArityMatches) =>
        /\ pc = "done"
        /\ result = ErrorResult("TypeError")
        /\ convLog = <<>>
        /\ live = {}
        /\ freed = {}
        /\ RetObj = NoObj
        /\ ~Invoked

\* C2: every transient handle and encoded byte buffer made while binding the
\* arguments of a call is alive while the call binds and while the native
\* function runs, is freed when the call ends on any exit path, never
\* outlives the call, and the handle returned to the host is not freed.
C2_TransientsLiveThenReleased ==
    /\ pc \in {"bind", "invoke", "native"} => AllCreated \subseteq live
    /\ \A k \in 1..Len(native) : AllCreated \subseteq native[k].live
    /\ pc = "done" => (live = {} /\ AllCreated \subseteq freed)
    /\ pc = "idle" => live = {}
    /\ result.kind = "value" => (result.obj.id = RetId /\ RetId \notin freed)
    /\ RetId \notin AllCreated

\* C2, its case: a call that made a transient for its first argument and an
\* encoded byte buffer, ran the native function with both alive, and ended.
C2_Witness ==
    /\ pc = "done"
    /\ Invoked
    /\ {TmpId(0), PyBufId(0)} \subseteq native[1].live
    /\ {TmpId(0), PyBufId(0)} \subseteq freed
    /\ result.kind = "value"

IsConstCharPointer(t) ==
    PointeeConst(t) /\ Kind(Pointee(t)) = "Basic" /\ BasicKind(Pointee(t)) = "Char"
IsExactBuffer(O, t) ==
    IsBuffer(O) /\ O.ndim = 1 /\ O.fmt = getFormatDescriptor(Pointee(t))
AccessGranted(O, t) == PointeeConst(t) \/ ~O.ro
PointerConversions ==
    {e \in LogEntries : Kind(e.ty) = "Pointer" /\ ~IsHandle(e.arg, "CPointerObj")}

\* C3 as stated: for a pointer parameter and a value that is no Pointer
\* handle, the string shortcut is taken only for a const char pointee with a
\* host string; every other case is decided by the buffer path, which fails
\* unless the value is a one-dimensional buffer of the pointee's exact
\* format, and asks for write access exactly when the pointee is non-const.
C3_ShortcutOnlyForConstCharString ==
    \A e \in PointerConversions :
        /\ e.res.path = "string" => (IsConstCharPointer(e.ty) /\ e.arg.hk = "str")
        /\ ~(IsConstCharPointer(e.ty) /\ e.arg.hk = "str") =>
              /\ e.res.ok => IsExactBuffer(e.arg, e.ty)
              /\ (IsExactBuffer(e.arg, e.ty) /\ AccessGranted(e.arg, e.ty)) => e.res.ok
              /\ \A k \in 1..Len(e.res.reqs) : e.res.reqs[k] = ~PointeeConst(e.ty)

\* C3 amended: the branch is chosen by the pointee alone.  A const char
\* pointee never reaches the buffer path: a host string is encoded, a bytes
\* object is used as it is, any other value fails with TypeError.  Every
\* other pointee takes the buffer path: a value that is no buffer fails the
\* cast, a buffer is asked for write access exactly when the pointee is
\* non-const, and the conversion succeeds exactly when the access is granted
\* and the buffer is one-dimensional of the pointee's exact format (TypeError
\* on a dimension or format mismatch).
C3_BranchChosenByPointee ==
    \A e \in PointerConversions :
        IF IsConstCharPointer(e.ty)
        THEN /\ e.res.path = (IF e.arg.hk = "str" THEN "string" ELSE "bytes")
             /\ e.res.reqs = <<>>
             /\ e.res.ok <=> ((e.arg.hk = "str" /\ e.arg.enc) \/ e.arg.hk = "bytes")
             /\ ~e.res.ok => e.res.err = "TypeError"
        ELSE /\ e.res.path = "buffer"
             /\ e.res.reqs = (IF IsBuffer(e.arg) THEN <<~PointeeConst(e.ty)>> ELSE <<>>)
             /\ e.res.ok <=> (IsExactBuffer(e.arg, e.ty) /\ AccessGranted(e.arg, e.ty))
             /\ ~IsBuffer(e.arg) => e.res.err = "cast_error"
             /\ (IsBuffer(e.arg) /\ AccessGranted(e.arg, e.ty)
                    /\ ~IsExactBuffer(e.arg, e.ty)) => e.res.err = "TypeError"

\* C3, its case: a call of matching arity whose const char pointer parameter
\* was given a bytes object, which was accepted without any buffer request
\* and passed to the native function.
C3_Witness ==
    /\ ArityMatches
    /\ Invoked
    /\ \E e \in PointerConversions :
          /\ e.ty = "PConstChar"
          /\ e.arg = PyBytes
          /\ e.res.ok
          /\ e.res.path = "bytes"

\* C4: an Array, Struct, Union or Function parameter accepts only a handle
\* whose descriptor is exactly the declared type, and a Pointer parameter
\* given a Pointer handle accepts only one of its own pointer type; any other
\* handle is refused.
C4_HandleOfExactTypeOnly ==
    \A e \in LogEntries :
        (Kind(e.ty) \in {"Array", "Struct", "Union", "Function"}
            \/ (Kind(e.ty) = "Pointer" /\ IsHandle(e.arg, "CPointerObj"))) =>
        (e.res.ok <=> (e.arg.hk = "handle" /\ e.arg.obj.ty = e.ty))

C5_Body ==
    /\ \A i \in 1..Len(convLog) :
          /\ convLog[i].pos = i - 1
          /\ convLog[i].arg = args[i]
          /\ i <= NParams
          /\ convLog[i].ty = fn.params[i]
    /\ \A k \in 1..Len(native) :
          /\ Len(native[k].ptrs) = NParams
          /\ Len(convLog) = NParams
          /\ \A i \in 1..NParams : native[k].ptrs[i] = convLog[i].res.obj.addr

\* C5: the arguments are converted one at a time in declaration order, each
\* against the declared type of its own position, and the native call gets
\* exactly N addresses, the i-th being the data address of the handle made
\* for parameter i.
C5_DeclarationOrder == InCall => C5_Body

\* C5 restricted to the calls whose arity matches (it holds of those).
C5_WhenArityMatches == (InCall /\ ArityMatches) => C5_Body

C10_Body ==
    /\ Len(native) <= 1
    /\ Invoked =>
          /\ Len(convLog) = NParams
          /\ \A e \in LogEntries : e.res.ok
          /\ fn.ret # "-" => (native[1].ret = HeapAddr(RetId) /\ RetId \in native[1].live)
          /\ fn.ret = "-" => (native[1].ret = -1 /\ RetId \notin native[1].live)
    /\ \A i \in 1..Len(convLog) :
          ~convLog[i].res.ok =>
             /\ i = Len(convLog)
             /\ pc = "done"
             /\ result = ErrorResult(convLog[i].res.err)
             /\ RetObj = NoObj
             /\ RetId \notin (live \cup freed)
             /\ ~Invoked
    /\ (pc = "done" /\ result.kind \in {"value", "none"}) =>
          /\ Invoked
          /\ result.kind = "none" <=> fn.ret = "-"

\* C10: the native function is invoked at most once per call, only after all
\* N conversions succeeded and the return handle (if any) exists; a failed
\* conversion ends the call at once: nothing further is converted, no return
\* handle is made, the native function is not invoked.  Without a return
\* type the native call gets no return slot and the host gets the empty
\* result.
C10_InvokedOnceAfterBinding == InCall => C10_Body

\* C10 restricted to the calls whose arity matches (it holds of those).
C10_WhenArityMatches == (InCall /\ ArityMatches) => C10_Body

(***************************************************************************)
(* Properties of the value setter and getter.                              *)
(***************************************************************************)
IsSet == lastOp.op = "set"
IsAccess == lastOp.op \in {"get", "set"}

\* C6: set on a Struct, Union or Array location either fails, the value not
\* being a handle of the location's type, or copies exactly descriptor.size
\* bytes of the source handle into [address, address + size): nothing is
\* read outside the source's region, nothing written outside the
\* destination's.
C6_CompositeSetCopiesExactlySize ==
    (IsSet /\ Kind(lastOp.ty) \in {"Struct", "Union", "Array"}) =>
        LET n == Size(lastOp.ty)
            O == lastOp.arg
            matching == O.hk = "handle" /\ O.obj.ty = lastOp.ty
        IN  IF lastOp.res.outcome = "ok"
            THEN /\ matching
                 /\ DOMAIN lastOp.res.writes = Region(lastOp.addr, n)
                 /\ lastOp.res.reads \subseteq Region(O.obj.addr, Size(O.obj.ty))
                 /\ \A k \in 0..(n - 1) : mem[lastOp.addr + k] = mem[O.obj.addr + k]
            ELSE /\ ~matching
                 /\ lastOp.res.writes = NoWrites

CaseOfKind(k) ==
    CASE k = "Basic" -> "case_basic" [] k = "Enum" -> "case_enum"
      [] k = "Pointer" -> "case_pointer" [] k = "Array" -> "case_array"
      [] k = "Function" -> "case_func" [] OTHER -> "case_composite"

C9_Outcome ==
    IsAccess =>
        /\ lastOp.res.case = CaseOfKind(Kind(lastOp.ty))
        /\ Kind(lastOp.ty) = "Function" =>
              /\ lastOp.res.outcome = "TypeError"
              /\ lastOp.res.value = PyNone
              /\ lastOp.res.writes = NoWrites
              /\ lastOp.res.reads = {}
        /\ Kind(lastOp.ty) = "Enum" =>
              /\ lastOp.res.ctype = TypeTable[lastOp.ty].basic
              /\ lastOp.res.outcome = "ok" =>
                    IF IsSet
                    THEN DOMAIN lastOp.res.writes = Region(lastOp.addr, Size(lastOp.res.ctype))
                    ELSE lastOp.res.reads = Region(lastOp.addr, Size(lastOp.res.ctype))

C9_MemoryKept ==
    (opCount' # opCount /\ Kind(lastOp'.ty) = "Function") => mem' = mem

\* C9: get and set on a Function-typed location fail with TypeError, yield
\* no host value and leave every byte of memory as it was; every other kind
\* runs the case of its own kind, an Enum as its underlying integer type.
C9_FunctionLocationRejected == []C9_Outcome /\ [][C9_MemoryKept]_vars

\* C9, its case: a function handle assigned to a Function-typed field after
\* an earlier write went through.
C9_Witness ==
    /\ IsSet
    /\ Kind(lastOp.ty) = "Function"
    /\ IsHandle(lastOp.arg, "CFunction")
    /\ lastOp.res.outcome = "TypeError"
    /\ opCount = 2
    /\ mem[8] = 1

(***************************************************************************)
(* Properties of the casts.                                                *)
(***************************************************************************)
\* C7: an array-to-array cast and a struct/union-to-struct/union cast yield
\* a handle exactly when the two sizes are equal and the source address is a
\* multiple of the target's alignment; the handle is then a view at the
\* source address, of the class the target names; otherwise there is no
\* result.
C7_CastNeedsSizeAndAlignment ==
    ((lastCast.op = "CArrayObj::cast" /\ Kind(lastCast.to) = "Array")
        \/ (lastCast.op = "CCompositeObj::cast" /\ Kind(lastCast.to) \in {"Struct", "Union"})) =>
        LET fits == /\ TypeTable[lastCast.to].size = TypeTable[lastCast.src.ty].size
                    /\ lastCast.src.addr % TypeTable[lastCast.to].align = 0
        IN  /\ lastCast.res # NoObj <=> fits
            /\ lastCast.res # NoObj =>
                  /\ ~lastCast.res.owned
                  /\ lastCast.res.addr = lastCast.src.addr
                  /\ lastCast.res.ty = lastCast.to
                  /\ lastCast.res.cls =
                        (CASE Kind(lastCast.to) = "Array" -> "CArrayObj"
                           [] Kind(lastCast.to) = "Struct" -> "CStructObj"
                           [] Kind(lastCast.to) = "Union" -> "CUnionObj")

\* C7, its case: a 4-byte char array at address 4 viewed as an array of one
\* int32.
C7_Witness ==
    /\ lastCast.op = "CArrayObj::cast"
    /\ lastCast.src.ty = "A4Char"
    /\ lastCast.to = "A1Int32"
    /\ lastCast.src.addr = 4
    /\ lastCast.res # NoObj

\* C8: a Pointer handle cast to a Basic target yields a handle only for an
\* integer type as wide as an address, and then an owned scalar holding the
\* address; a float target or one of another size yields nothing; a Pointer
\* target always yields an owned Pointer handle with the same address; any
\* other target yields nothing.
C8_PointerCastToIntegerOnly ==
    lastCast.op = "CPointerObj::cast" =>
        CASE Kind(lastCast.to) = "Basic" ->
                IF IsIntegerType(lastCast.to) /\ TypeTable[lastCast.to].size = ptrWidth
                THEN lastCast.res # NoObj =>
                        (lastCast.res.owned /\ lastCast.res.val = lastCast.src.val)
                ELSE lastCast.res = NoObj
          [] Kind(lastCast.to) = "Pointer" ->
                /\ lastCast.res.cls = "CPointerObj"
                /\ lastCast.res.owned
                /\ lastCast.res.val = lastCast.src.val
          [] OTHER -> lastCast.res = NoObj

====
